---- MODULE Spec2Model ----
(***************************************************************************)
(* Model of convert.py: the batch 480p converter.  The state is the       *)
(* position of main()/convert_one() in the batch, the temp directory, the *)
(* output tree, the ffmpeg child processes and the tallies of main().     *)
(* Variables named h_* are history variables: they record what happened   *)
(* and are never read by the program's transitions.                       *)
(***************************************************************************)
EXTENDS Integers, Sequences, FiniteSets, TLC

(* ------------------------------------------------------------------ *)
(* Bounds of the model                                                 *)
(* ------------------------------------------------------------------ *)
MaxTasks == 2

\* source sizes 1..MaxSmallDim are tried besides the usual video sizes
MaxSmallDim == 3

(* ------------------------------------------------------------------ *)
(* Program constants                                                   *)
(* ------------------------------------------------------------------ *)
OVERWRITE == FALSE

SKIP_IF_ALREADY_480P == TRUE

None == "None"

\* exit status run_cmd reports for a KeyboardInterrupt
RC_INTERRUPT == 130

\* exit status run_cmd reports when Popen itself raises
RC_POPEN_ERROR == 1

\* nonzero exit statuses of an ffmpeg child
FailCodes == {1, 2}

\* backends detect_hwaccel can return on this platform (None: nothing found)
HwAccels == {None, "vaapi"}

(* ------------------------------------------------------------------ *)
(* Strings are sequences of characters, paths sequences of components  *)
(* ------------------------------------------------------------------ *)
Last(s) == s[Len(s)]

\* str.endswith
EndsWith(s, suffix) ==
    /\ Len(suffix) <= Len(s)
    /\ SubSeq(s, Len(s) - Len(suffix) + 1, Len(s)) = suffix

\* the `in` operator on strings
Contains(hay, needle) ==
    \E i \in 0..(Len(hay) - Len(needle)) :
        SubSeq(hay, i + 1, i + Len(needle)) = needle

LowerChar(c) ==
    CASE c = "H" -> "h"
      [] c = "Y" -> "y"
      [] c = "U" -> "u"
      [] c = "V" -> "v"
      [] c = "P" -> "p"
      [] c = "J" -> "j"
      [] OTHER -> c

\* str.lower
Lower(s) == [i \in 1..Len(s) |-> LowerChar(s[i])]

SUFFIX_480P == <<"_", "4", "8", "0", "p">>

EXT_MKV == <<".", "m", "k", "v">>

EXT_MP4 == <<".", "m", "p", "4">>

STR_H264 == <<"h", "2", "6", "4">>

STR_YUV420P == <<"y", "u", "v", "4", "2", "0", "p">>

STR_YUVJ420P == <<"y", "u", "v", "j", "4", "2", "0", "p">>

(* ------------------------------------------------------------------ *)
(* The batch: (root, file) pairs as collect_video_files returns them   *)
(* ------------------------------------------------------------------ *)
RootA == <<"x", "A">>

MkFile(root, parent, stem, ext) ==
    [root |-> root, parent |-> parent, stem |-> stem, ext |-> ext]

AllFiles ==
    << MkFile(RootA, <<>>, <<"a">>, EXT_MKV),
       MkFile(RootA, <<>>, <<"b">>, EXT_MKV),
       MkFile(RootA, <<>>, <<"a">>, EXT_MP4),
       MkFile(RootA, <<"s">>, <<"a">> \o SUFFIX_480P, EXT_MKV) >>

RootA2 == <<"y", "A">>

\* a walk whose files share a stem, already carry the suffix, or lie under
\* another root of the same name
CollidingFiles ==
    << MkFile(RootA, <<>>, <<"a">>, EXT_MKV),
       MkFile(RootA, <<>>, <<"a">>, EXT_MP4),
       MkFile(RootA, <<>>, <<"a">> \o SUFFIX_480P, EXT_MKV),
       MkFile(RootA2, <<>>, <<"a">>, EXT_MKV) >>

Prefixes(files) ==
    { SubSeq(files, 1, n) : n \in 1..(IF MaxTasks < Len(files) THEN MaxTasks ELSE Len(files)) }

TaskLists == Prefixes(AllFiles) \cup Prefixes(CollidingFiles)

(* ------------------------------------------------------------------ *)
(* Stream profiles ffprobe_info can return                             *)
(* ------------------------------------------------------------------ *)
EmptyInfo == [k \in {} |-> 0]

Profiles ==
    { EmptyInfo,
      [width |-> 640, height |-> 360, pix_fmt |-> STR_YUV420P, codec_name |-> STR_H264],
      [width |-> 1280, height |-> 720, pix_fmt |-> STR_YUV420P, codec_name |-> STR_H264],
      [width |-> 640, height |-> 360, codec_name |-> STR_H264] }

(* ------------------------------------------------------------------ *)
(* State                                                               *)
(* ------------------------------------------------------------------ *)
VARIABLES
    HWACCEL,     \* module-level HWACCEL = detect_hwaccel()
    tasks,       \* main: tasks = collect_video_files(inputs)
    second,      \* FALSE in the first run of the program, TRUE in the second
    idx,         \* main: position of the for loop (1-based)
    pc,          \* "loop", "probe", "spawn", "wait", "commit", "done"
    out_file,    \* convert_one: out_file
    info,        \* convert_one: info
    kind,        \* which invocation convert_one is at: "remux", "hw", "sw"
    temp_name,   \* convert_one: temp_name (a uuid, modelled as a number)
    p,           \* run_cmd: p, None or the child being waited for
    terminated,  \* some child was sent terminate(), never waited for, and still runs
    tempdir,     \* TEMP_DIR: temp path -> content
    outtree,     \* files under the output root: path -> content
    outdirs,     \* directories under the output root
    done, skipped, remuxed, errors,   \* main: the tallies
    h_cur,       \* the task the h_* variables below describe (0: none yet)
    h_log,       \* its engine invocations, in order
    h_existed,   \* did its out_file exist when it started
    h_probed,    \* was ffprobe run for it
    h_code,      \* the exit status its outcome carries
    h_cancel,    \* this run: was an engine invocation cancelled: "no", "this" task, "earlier" task
    h_outcome,   \* this run: task index -> outcome status
    h_prev,      \* second run: the tasks the first run converted (remuxed or encoded)
    h_outBefore, \* the output tree when task h_cur started
    h_tempBefore,\* TEMP_DIR when task h_cur started
    fn_arg,      \* a pure function checked on its own: its argument,
    fn_res,      \*   its result,
    fn_done      \*   and whether it has been applied

vars == << HWACCEL, tasks, second, idx, pc, out_file, info, kind, temp_name, p,
           terminated, tempdir, outtree, outdirs, done, skipped, remuxed, errors,
           h_cur, h_log, h_existed, h_probed, h_code, h_cancel, h_outcome, h_prev,
           h_outBefore, h_tempBefore, fn_arg, fn_res, fn_done >>

progvars ==
    << HWACCEL, tasks, second, idx, pc, out_file, info, kind, temp_name, p,
       terminated, tempdir, outtree, outdirs, done, skipped, remuxed, errors,
       h_cur, h_log, h_existed, h_probed, h_code, h_cancel, h_outcome, h_prev,
       h_outBefore, h_tempBefore >>

\* the variables the batch never touches
fnvars == << fn_arg, fn_res, fn_done >>

(* ------------------------------------------------------------------ *)
(* Pure functions of convert.py                                        *)
(* ------------------------------------------------------------------ *)
OUT_ROOT == <<"out">>

\* base_with_suffix(base, suffix)
base_with_suffix(base, suffix) ==
    IF EndsWith(base, suffix) THEN base ELSE base \o suffix

\* Path.name of a root: its last component
RootName(in_root) == Last(in_root)

\* the directory make_output_path creates: out_root / in_root.name / rel.parent
OutDir(in_file, in_root, out_root) ==
    out_root \o <<RootName(in_root)>> \o in_file.parent

\* a naming that depends on the run: the second run looks elsewhere
make_output_path_PerRun(in_file, in_root, out_root) ==
    [dir  |-> OutDir(in_file, in_root, out_root),
     name |-> base_with_suffix(in_file.stem, SUFFIX_480P)
              \o (IF second THEN <<"_", "2">> ELSE <<>>) \o EXT_MKV]

\* make_output_path(in_file, in_root, out_root): the path it returns
make_output_path(in_file, in_root, out_root) ==
    [dir  |-> OutDir(in_file, in_root, out_root),
     name |-> base_with_suffix(in_file.stem, SUFFIX_480P) \o EXT_MKV]

\* mkdir(parents=True, exist_ok=True): the directory and all its ancestors
MkdirParents(dirs, d) == dirs \cup { SubSeq(d, 1, n) : n \in 1..Len(d) }

\* dict.get(key) is not None
Has(prof, key) == key \in DOMAIN prof

\* (info.get(key) or "").lower()
GetLower(prof, key) == IF Has(prof, key) THEN Lower(prof[key]) ELSE <<>>

\* a classifier whose size bounds are strict
already_satisfies_480p_Strict(prof) ==
    IF DOMAIN prof = {} THEN FALSE
    ELSE /\ Has(prof, "width")
         /\ Has(prof, "height")
         /\ prof["width"] < 854
         /\ prof["height"] < 480
         /\ Contains(GetLower(prof, "codec_name"), STR_H264)
         /\ GetLower(prof, "pix_fmt") \in {STR_YUV420P, STR_YUVJ420P}

\* already_satisfies_480p(info)
already_satisfies_480p(prof) ==
    IF DOMAIN prof = {} THEN FALSE
    ELSE /\ Has(prof, "width")
         /\ Has(prof, "height")
         /\ prof["width"] <= 854
         /\ prof["height"] <= 480
         /\ Contains(GetLower(prof, "codec_name"), STR_H264)
         /\ GetLower(prof, "pix_fmt") \in {STR_YUV420P, STR_YUVJ420P}

\* the remux command convert_one builds inline: video copied, no -hwaccel
remux_command(in_file, out_temp) ==
    [hwaccel |-> None, input |-> in_file, vcodec |-> "copy", acodec |-> "aac",
     overwrite |-> OVERWRITE, output |-> out_temp]

\* the box of the scale filter in vf_chain
TARGET_W == 854

TARGET_H == 480

\* a filter that takes the larger of the two ratios
ScaleRatio_Max(iw, ih) ==
    IF TARGET_W * ih >= TARGET_H * iw THEN <<TARGET_W, iw>> ELSE <<TARGET_H, ih>>

\* vf_chain: min(854/iw, 480/ih), as numerator and denominator
ScaleRatio(iw, ih) ==
    IF TARGET_W * ih <= TARGET_H * iw THEN <<TARGET_W, iw>> ELSE <<TARGET_H, ih>>

\* vf_chain: trunc(d*ratio/2)*2.  ffmpeg evaluates it in doubles: a ratio that
\* is not a whole number is rounded, so when d*ratio/2 is a whole number the
\* product may fall just below it, and trunc then yields the next lower integer
ScaledDims(d, ratio) ==
    LET n == d * ratio[1]
        m == 2 * ratio[2]
        q == n \div m
    IN IF n % m = 0 /\ ratio[1] % ratio[2] # 0 /\ q > 0
       THEN {2 * q, 2 * (q - 1)}
       ELSE {2 * q}

\* vf_chain: the sizes the scale filter can give a source of iw x ih
ScaleOutputs(iw, ih) ==
    { [w |-> a, h |-> b] : a \in ScaledDims(iw, ScaleRatio(iw, ih)),
                           b \in ScaledDims(ih, ScaleRatio(iw, ih)) }

\* a builder that falls back to "-hwaccel auto" when no backend is given
build_ffmpeg_command_AutoHw(in_file, out_temp, hwaccel) ==
    [hwaccel |-> IF hwaccel # None THEN hwaccel ELSE "auto",
     input |-> in_file, vcodec |-> "libx264", acodec |-> "aac",
     overwrite |-> OVERWRITE, output |-> out_temp]

\* build_ffmpeg_command(in_file, out_file, hwaccel)
build_ffmpeg_command(in_file, out_temp, hwaccel) ==
    [hwaccel |-> IF hwaccel # None THEN hwaccel ELSE None,
     input |-> in_file, vcodec |-> "libx264", acodec |-> "aac",
     overwrite |-> OVERWRITE, output |-> out_temp]

NoPath == [dir |-> <<>>, name |-> <<>>]

\* the program's variables once main has collected the batch
ProgInit ==
    /\ HWACCEL \in HwAccels
    /\ tasks \in TaskLists
    /\ second = FALSE
    /\ idx = 1
    /\ pc = "loop"
    /\ out_file = NoPath
    /\ info = EmptyInfo
    /\ kind = "none"
    /\ temp_name = 0
    /\ p = None
    /\ terminated = FALSE
    /\ tempdir = [t \in {} |-> 0]
    /\ outtree = [f \in {} |-> 0]
    /\ outdirs = {OUT_ROOT}
    /\ done = 0 /\ skipped = 0 /\ remuxed = 0 /\ errors = 0
    /\ h_cur = 0
    /\ h_log = <<>>
    /\ h_existed = FALSE
    /\ h_probed = FALSE
    /\ h_code = 0
    /\ h_cancel = "no"
    /\ h_outcome = [i \in 1..Len(tasks) |-> "none"]
    /\ h_prev = {}
    /\ h_outBefore = [f \in {} |-> 0]
    /\ h_tempBefore = [t \in {} |-> 0]

Init ==
    /\ ProgInit
    /\ fn_arg = 0
    /\ fn_res = 0
    /\ fn_done = FALSE

(* ------------------------------------------------------------------ *)
(* Decisions of convert_one                                            *)
(* ------------------------------------------------------------------ *)
\* the exists check with the OVERWRITE flag inverted
ShouldSkip_Inverted(out) == out \in DOMAIN outtree /\ OVERWRITE

\* convert_one: `out_file.exists() and not OVERWRITE`
ShouldSkip(out) == out \in DOMAIN outtree /\ ~OVERWRITE

\* convert_one: the full-encode path starts with the hwaccel attempt iff tried_hw
EncodeKind(tried_hw) == IF tried_hw # None THEN "hw" ELSE "sw"

\* a convert_one that remuxes whatever the probe returned
FirstKind_AlwaysRemux(i, tried_hw) == "remux"

\* a convert_one that ignores the classifier and always encodes
FirstKind_AlwaysEncode(i, tried_hw) == EncodeKind(tried_hw)

\* convert_one: the first invocation after the probe
FirstKind(i, tried_hw) ==
    IF SKIP_IF_ALREADY_480P /\ already_satisfies_480p(i)
    THEN "remux"
    ELSE EncodeKind(tried_hw)

\* a convert_one whose every fallback is the software encode
NextKind_SkipHw(k, tried_hw) ==
    CASE k = "remux" -> "sw"
      [] k = "hw" -> "sw"
      [] OTHER -> "none"

\* a convert_one that reports the error when the remux fails
NextKind_NoFallThrough(k, tried_hw) ==
    CASE k = "hw" -> "sw"
      [] OTHER -> "none"

\* convert_one: the invocation that follows a failed one ("none": give up)
NextKind(k, tried_hw) ==
    CASE k = "remux" -> EncodeKind(tried_hw)
      [] k = "hw" -> "sw"
      [] OTHER -> "none"

\* convert_one: is temp_name assigned a new uuid after invocation k failed
FreshTempAfter(k) == k = "remux"

\* a temp name that is the same for every attempt
uuid4_Constant(td, log) == 1

\* uuid.uuid4().hex: a name no file in TEMP_DIR has and this task has not used
uuid4(td, log) ==
    CHOOSE n \in 1..(Cardinality(DOMAIN td) + Len(log) + 1) :
        /\ n \notin DOMAIN td
        /\ \A i \in DOMAIN log : log[i].temp # n
        /\ \A m \in 1..(n - 1) : m \in DOMAIN td \/ \E i \in DOMAIN log : log[i].temp = m

\* the command line of invocation k
Command(k, in_file, out_temp, tried_hw) ==
    IF k = "remux"
    THEN remux_command(in_file, out_temp)
    ELSE build_ffmpeg_command(in_file, out_temp, IF k = "hw" THEN tried_hw ELSE None)

\* `if temp_name.exists(): temp_name.unlink()`
Unlink(td, t) == [x \in DOMAIN td \ {t} |-> td[x]]

\* what an ffmpeg child has written to its output path
Content(in_file, q) == [src |-> in_file, q |-> q]

\* the status string convert_one returns after a committed invocation k
SuccessStatus(k) == IF k = "remux" THEN "remuxed-audio-converted" ELSE "encoded"

(* ------------------------------------------------------------------ *)
(* main: the loop body after convert_one returned or raised            *)
(* ------------------------------------------------------------------ *)
\* a main that leaves the loop when a task reports an error
Complete_StopOnError(status, code) ==
    /\ h_outcome' = [h_outcome EXCEPT ![idx] = status]
    /\ h_code' = code
    /\ done' = IF status = "encoded" THEN done + 1 ELSE done
    /\ remuxed' = IF status = "remuxed-audio-converted" THEN remuxed + 1 ELSE remuxed
    /\ skipped' = IF status = "exists-skip" THEN skipped + 1 ELSE skipped
    /\ errors' = IF status \in {"error", "exception"} THEN errors + 1 ELSE errors
    /\ idx' = idx + 1
    /\ pc' = IF status = "error" THEN "done" ELSE "loop"

Complete(status, code) ==
    /\ h_outcome' = [h_outcome EXCEPT ![idx] = status]
    /\ h_code' = code
    /\ done' = IF status = "encoded" THEN done + 1 ELSE done
    /\ remuxed' = IF status = "remuxed-audio-converted" THEN remuxed + 1 ELSE remuxed
    /\ skipped' = IF status = "exists-skip" THEN skipped + 1 ELSE skipped
    /\ errors' = IF status \in {"error", "exception"} THEN errors + 1 ELSE errors
    /\ idx' = idx + 1
    /\ pc' = "loop"

NotComplete == UNCHANGED << h_outcome, h_code, done, remuxed, skipped, errors, idx >>

(* ------------------------------------------------------------------ *)
(* Actions                                                             *)
(* ------------------------------------------------------------------ *)
\* main: next iteration; convert_one up to the exists check
TaskEntry ==
    /\ pc = "loop"
    /\ idx <= Len(tasks)
    /\ LET t == tasks[idx]
           out == make_output_path(t, t.root, OUT_ROOT)
       IN /\ out_file' = out
          /\ outdirs' = MkdirParents(outdirs, OutDir(t, t.root, OUT_ROOT))
          /\ h_existed' = (out \in DOMAIN outtree)
          /\ IF ShouldSkip(out)
             THEN Complete("exists-skip", 0)
             ELSE /\ pc' = "probe"
                  /\ h_code' = 0
                  /\ UNCHANGED << h_outcome, done, remuxed, skipped, errors, idx >>
    /\ h_cur' = idx
    /\ h_log' = <<>>
    /\ h_probed' = FALSE
    /\ h_cancel' = IF h_cancel = "no" THEN "no" ELSE "earlier"
    /\ info' = EmptyInfo
    /\ kind' = "none"
    /\ temp_name' = 0
    /\ UNCHANGED << HWACCEL, tasks, second, p, terminated, tempdir, outtree, h_prev >>
    /\ h_outBefore' = outtree
    /\ h_tempBefore' = tempdir
    /\ UNCHANGED fnvars

\* convert_one: ffprobe_info returns, the classifier picks the first invocation
Probe ==
    /\ pc = "probe"
    /\ \E i \in Profiles :
        /\ info' = i
        /\ kind' = FirstKind(i, HWACCEL)
    /\ temp_name' = uuid4(tempdir, h_log)
    /\ h_probed' = TRUE
    /\ pc' = "spawn"
    /\ NotComplete
    /\ UNCHANGED << HWACCEL, tasks, second, out_file, p, terminated, tempdir, outtree,
                    outdirs, h_cur, h_log, h_existed, h_cancel, h_prev >>
    /\ UNCHANGED << h_outBefore, h_tempBefore, fn_arg, fn_res, fn_done >>

\* KeyboardInterrupt while ffprobe runs: not an Exception, so it leaves
\* ffprobe_info and convert_one and reaches main's handler, which breaks
ProbeInterrupt ==
    /\ pc = "probe"
    /\ h_probed' = TRUE
    /\ h_outcome' = [h_outcome EXCEPT ![idx] = "interrupted"]
    /\ pc' = "done"
    /\ UNCHANGED << HWACCEL, tasks, second, idx, out_file, info, kind, temp_name, p,
                    terminated, tempdir, outtree, outdirs, done, skipped, remuxed,
                    errors, h_cur, h_log, h_existed, h_code, h_cancel, h_prev >>
    /\ UNCHANGED << h_outBefore, h_tempBefore, fn_arg, fn_res, fn_done >>

\* run_cmd: subprocess.Popen(cmd) starts the child, or raises
Spawn ==
    /\ pc = "spawn"
    /\ LET cmd == Command(kind, tasks[idx], temp_name, HWACCEL)
       IN h_log' = Append(h_log, [kind |-> kind, temp |-> cmd.output,
                                   hwaccel |-> cmd.hwaccel, vcodec |-> cmd.vcodec,
                                   started |-> FALSE, rc |-> -1, cancelled |-> FALSE])
    /\ p' \in {None, "ffmpeg"}
    /\ pc' = "wait"
    /\ NotComplete
    /\ UNCHANGED << HWACCEL, tasks, second, out_file, info, kind, temp_name, terminated,
                    tempdir, outtree, outdirs, h_cur, h_existed, h_probed, h_cancel,
                    h_prev >>
    /\ UNCHANGED << h_outBefore, h_tempBefore, fn_arg, fn_res, fn_done >>

\* the running child creates its output file
ChildWrite ==
    /\ pc = "wait"
    /\ p # None
    /\ temp_name \notin DOMAIN tempdir
    /\ tempdir' = (temp_name :> Content(tasks[idx], "partial")) @@ tempdir
    /\ UNCHANGED << HWACCEL, tasks, second, idx, pc, out_file, info, kind, temp_name, p,
                    terminated, outtree, outdirs, done, skipped, remuxed, errors,
                    h_cur, h_log, h_existed, h_probed, h_code, h_cancel, h_outcome,
                    h_prev >>
    /\ UNCHANGED << h_outBefore, h_tempBefore, fn_arg, fn_res, fn_done >>

\* convert_one after run_cmd returned code; td is the temp directory then
HandleRc(code, td, cancelled) ==
    /\ h_log' = [h_log EXCEPT ![Len(h_log)] =
                    [@ EXCEPT !.started = (p # None), !.rc = code, !.cancelled = cancelled]]
    /\ h_cancel' = IF cancelled THEN "this" ELSE h_cancel
    /\ p' = None
    /\ IF code = 0
       THEN /\ pc' = "commit"
            /\ tempdir' = td
            /\ NotComplete
            /\ UNCHANGED << kind, temp_name >>
       ELSE /\ tempdir' = Unlink(td, temp_name)
            /\ IF NextKind(kind, HWACCEL) = "none"
               THEN /\ Complete("error", code)
                    /\ UNCHANGED << kind, temp_name >>
               ELSE /\ kind' = NextKind(kind, HWACCEL)
                    /\ temp_name' = IF FreshTempAfter(kind)
                                    THEN uuid4(Unlink(td, temp_name), h_log)
                                    ELSE temp_name
                    /\ pc' = "spawn"
                    /\ NotComplete

\* run_cmd: p.wait() returns the child's exit status (or Popen had raised: 1)
WaitReturn ==
    /\ pc = "wait"
    /\ \E code \in (IF p = None THEN {RC_POPEN_ERROR} ELSE {0} \cup FailCodes) :
        HandleRc(code,
                 IF code = 0
                 THEN (temp_name :> Content(tasks[idx], "complete")) @@ tempdir
                 ELSE tempdir,
                 FALSE)
    /\ UNCHANGED << HWACCEL, tasks, second, out_file, info, terminated, outtree, outdirs,
                    h_cur, h_existed, h_probed, h_prev >>
    /\ UNCHANGED << h_outBefore, h_tempBefore, fn_arg, fn_res, fn_done >>

\* run_cmd: KeyboardInterrupt during p.wait(): p.terminate(), return 130.
\* The child is signalled, not waited for
WaitInterrupt ==
    /\ pc = "wait"
    /\ p # None
    /\ terminated' = TRUE
    /\ HandleRc(RC_INTERRUPT, tempdir, TRUE)
    /\ UNCHANGED << HWACCEL, tasks, second, out_file, info, outtree, outdirs,
                    h_cur, h_existed, h_probed, h_prev >>
    /\ UNCHANGED << h_outBefore, h_tempBefore, fn_arg, fn_res, fn_done >>

\* the terminated children that nobody waits for have exited
OrphanExit ==
    /\ terminated
    /\ terminated' = FALSE
    /\ UNCHANGED << HWACCEL, tasks, second, idx, pc, out_file, info, kind, temp_name, p,
                    tempdir, outtree, outdirs, done, skipped, remuxed, errors,
                    h_cur, h_log, h_existed, h_probed, h_code, h_cancel, h_outcome,
                    h_prev >>
    /\ UNCHANGED << h_outBefore, h_tempBefore, fn_arg, fn_res, fn_done >>

\* convert_one: shutil.move(temp_name, out_file) and return; main tallies.
\* The move renames; or it raises with nothing changed; or (other filesystem)
\* its copy raises part-way.  A raise leaves convert_one and main counts an error
Commit ==
    /\ pc = "commit"
    /\ \E m \in {"moved", "raised", "raised-partial"} :
        /\ outtree' = CASE m = "moved" -> (out_file :> tempdir[temp_name]) @@ outtree
                        [] m = "raised-partial" ->
                             (out_file :> Content(tasks[idx], "partial")) @@ outtree
                        [] OTHER -> outtree
        /\ tempdir' = IF m = "moved" THEN Unlink(tempdir, temp_name) ELSE tempdir
        /\ IF m = "moved"
           THEN Complete(SuccessStatus(kind), 0)
           ELSE Complete("exception", 0)
    /\ UNCHANGED << HWACCEL, tasks, second, out_file, info, kind, temp_name, p,
                    terminated, outdirs, h_cur, h_log, h_existed, h_probed, h_cancel,
                    h_prev >>
    /\ UNCHANGED << h_outBefore, h_tempBefore, fn_arg, fn_res, fn_done >>

\* main: the loop is over, the summary is printed
Summary ==
    /\ pc = "loop"
    /\ idx > Len(tasks)
    /\ pc' = "done"
    /\ UNCHANGED << HWACCEL, tasks, second, idx, out_file, info, kind, temp_name, p,
                    terminated, tempdir, outtree, outdirs, done, skipped, remuxed,
                    errors, h_cur, h_log, h_existed, h_probed, h_code, h_cancel,
                    h_outcome, h_prev >>
    /\ UNCHANGED << h_outBefore, h_tempBefore, fn_arg, fn_res, fn_done >>

\* the program is run a second time on the same batch and output root
Rerun ==
    /\ pc = "done"
    /\ ~second
    /\ second' = TRUE
    /\ HWACCEL' \in HwAccels
    /\ idx' = 1
    /\ pc' = "loop"
    /\ done' = 0 /\ skipped' = 0 /\ remuxed' = 0 /\ errors' = 0
    /\ h_prev' = { i \in DOMAIN h_outcome :
                     h_outcome[i] \in {"remuxed-audio-converted", "encoded"} }
    /\ h_outcome' = [i \in 1..Len(tasks) |-> "none"]
    /\ h_cancel' = "no"
    /\ h_cur' = 0
    /\ h_log' = <<>>
    /\ h_existed' = FALSE
    /\ h_probed' = FALSE
    /\ h_code' = 0
    /\ info' = EmptyInfo
    /\ kind' = "none"
    /\ temp_name' = 0
    /\ out_file' = NoPath
    /\ UNCHANGED << tasks, p, terminated, tempdir, outtree, outdirs >>
    /\ h_outBefore' = [f \in {} |-> 0]
    /\ h_tempBefore' = [t \in {} |-> 0]
    /\ UNCHANGED fnvars

Next ==
    \/ TaskEntry
    \/ Probe
    \/ ProbeInterrupt
    \/ Spawn
    \/ ChildWrite
    \/ WaitReturn
    \/ WaitInterrupt
    \/ OrphanExit
    \/ Commit
    \/ Summary
    \/ Rerun

Spec == Init /\ [][Next]_vars

(* ------------------------------------------------------------------ *)
(* Properties                                                          *)
(* ------------------------------------------------------------------ *)
\* convert_one has returned or raised for task h_cur
TaskEnded == pc \in {"loop", "done"} /\ h_cur # 0

Converted == {"remuxed-audio-converted", "encoded"}

\* the temp paths the current task handed to an engine invocation
TempsOfTask == { h_log[i].temp : i \in DOMAIN h_log }

AttemptsOf(kinds) == { i \in DOMAIN h_log : h_log[i].kind \in kinds }

\* the first invocation was the remux and it did not exit 0
RemuxFailed ==
    /\ h_log # <<>>
    /\ h_log[1].kind = "remux"
    /\ h_log[1].rc \notin {-1, 0}

\* C1: when a task has ended (returned or raised), none of the temp paths it
\* used still exists in the temp directory.
C1_NoTempLeftBehind ==
    TaskEnded => \A t \in TempsOfTask : t \notin DOMAIN tempdir

\* C2: overwrite disabled: after a successful outcome the destination exists
\* and the temp path is gone; after a failed outcome (an error status, or the
\* commit raising) the destination is absent and no temp path of the task remains.
C2_OutcomePostcondition ==
    (TaskEnded /\ ~OVERWRITE) =>
        /\ h_outcome[h_cur] \in Converted =>
              /\ out_file \in DOMAIN outtree
              /\ \A t \in TempsOfTask : t \notin DOMAIN tempdir
        /\ h_outcome[h_cur] \in {"error", "exception"} =>
              /\ out_file \notin DOMAIN outtree
              /\ \A t \in TempsOfTask : t \notin DOMAIN tempdir

\* C3: a cancelled engine invocation is the task's last one, and the task is
\* then not reported remuxed or encoded but with the cancellation status.
C3_CancelEndsTask ==
    \A i \in DOMAIN h_log :
        h_log[i].cancelled =>
            /\ i = Len(h_log)
            /\ TaskEnded => (h_outcome[h_cur] = "error" /\ h_code = RC_INTERRUPT)

\* C4: once an engine invocation of some task was cancelled, no later task of
\* the batch runs a probe or an engine invocation.
C4_CancelHaltsBatch ==
    h_cancel = "earlier" => (~h_probed /\ h_log = <<>>)

\* C5: no two engine attempts of one task write to the same temp path.
C5_FreshTempPerAttempt ==
    \A i, j \in DOMAIN h_log : i # j => h_log[i].temp # h_log[j].temp

\* C6: a task whose destination existed when it started (overwrite disabled)
\* is reported exists-skip and runs neither the probe nor any engine invocation.
C6_SkipExisting ==
    (h_cur # 0 /\ h_existed /\ ~OVERWRITE) =>
        /\ h_outcome[h_cur] = "exists-skip"
        /\ ~h_probed
        /\ h_log = <<>>
        /\ pc \in {"loop", "done"}

C6_Witness ==
    /\ h_cur # 0
    /\ h_existed
    /\ h_outcome[h_cur] = "exists-skip"
    /\ skipped > 0

\* C7: when the probed profile is compliant, the task's first engine
\* invocation is the remux (video copied), never a video re-encode.
C7_CompliantFirstRemux ==
    (h_probed /\ already_satisfies_480p(info)) =>
        /\ pc = "spawn" /\ h_log = <<>> => kind = "remux"
        /\ h_log # <<>> => (h_log[1].kind = "remux" /\ h_log[1].vcodec = "copy")

C7_Witness ==
    /\ already_satisfies_480p(info)
    /\ h_log # <<>>
    /\ h_log[1].kind = "remux"
    /\ h_log[1].started

\* C8 as stated: after a failed remux exactly one encode attempt follows.
C8_ExactlyOneEncode ==
    (TaskEnded /\ RemuxFailed) => Cardinality(AttemptsOf({"hw", "sw"})) = 1

\* C8 amended: after a failed remux, a task that runs to a result makes one or
\* two encode attempts: never zero, never two of the same kind; two only when a
\* backend was detected and the hardware attempt failed, the software attempt
\* then following it.
C8_OneOrTwoEncodes ==
    RemuxFailed =>
        /\ Cardinality(AttemptsOf({"hw"})) <= 1
        /\ Cardinality(AttemptsOf({"sw"})) <= 1
        /\ TaskEnded => Cardinality(AttemptsOf({"hw", "sw"})) >= 1
        /\ Cardinality(AttemptsOf({"hw", "sw"})) = 2 =>
              /\ HWACCEL # None
              /\ h_log[2].kind = "hw"
              /\ h_log[2].rc # 0
              /\ h_log[3].kind = "sw"

C8_Witness ==
    /\ TaskEnded
    /\ RemuxFailed
    /\ Cardinality(AttemptsOf({"hw", "sw"})) = 2
    /\ h_outcome[h_cur] = "encoded"

\* C9: when no backend was detected, no hardware attempt is made, every encode
\* path is the single software attempt, and no command line of any invocation
\* carries a -hwaccel directive.
C9_NoBackendNoHw ==
    HWACCEL = None =>
        /\ kind # "hw"
        /\ AttemptsOf({"hw"}) = {}
        /\ Cardinality(AttemptsOf({"sw"})) <= 1
        /\ \A i \in DOMAIN h_log : h_log[i].hwaccel = None

C9_Witness ==
    /\ HWACCEL = None
    /\ TaskEnded
    /\ \E i \in DOMAIN h_log : h_log[i].kind = "sw" /\ h_log[i].started /\ h_log[i].rc = 0

\* C10: in the second run (overwrite disabled) every file the first run
\* converted is reported exists-skip, and no probe or engine invocation is run
\* for it.
C10_SecondRunSkips ==
    (second /\ ~OVERWRITE) =>
        \A i \in h_prev :
            /\ i < idx => h_outcome[i] = "exists-skip"
            /\ i = h_cur => (~h_probed /\ h_log = <<>> /\ pc \in {"loop", "done"})

C10_Witness ==
    /\ second
    /\ h_cur \in h_prev
    /\ h_outcome[h_cur] = "exists-skip"
    /\ pc = "done"

(* ------------------------------------------------------------------ *)
(* Properties of the fallback, the commit and the batch                *)
(* ------------------------------------------------------------------ *)
Rank(k) == CASE k = "remux" -> 1 [] k = "hw" -> 2 [] OTHER -> 3

Failed(entry) == entry.rc \notin {-1, 0}

\* C11: within a task the invocations are in the order remux, hardware,
\* software, each kind at most once; a software attempt comes only right after
\* a failed hardware attempt or when no backend was detected; nothing follows
\* an attempt that exited 0.
C11_BoundedFallback ==
    /\ \A i, j \in DOMAIN h_log : i < j => Rank(h_log[i].kind) < Rank(h_log[j].kind)
    /\ \A i \in DOMAIN h_log :
          h_log[i].kind = "sw" =>
              \/ HWACCEL = None
              \/ (i > 1 /\ h_log[i - 1].kind = "hw" /\ Failed(h_log[i - 1]))
    /\ \A i \in DOMAIN h_log : h_log[i].rc = 0 => i = Len(h_log)
    /\ \A i \in DOMAIN h_log : i < Len(h_log) => Failed(h_log[i])

C11_Witness ==
    /\ TaskEnded
    /\ Len(h_log) = 3
    /\ h_log[3].kind = "sw"
    /\ h_log[3].rc = 0
    /\ h_outcome[h_cur] = "encoded"

\* C12: while a task runs, and after it ended failed or skipped, every file
\* that was in the output tree when it started is still there unchanged, and
\* so is every temp file it did not create.
C12_PriorOutputKept ==
    (h_cur # 0 /\ h_outcome[h_cur] \notin Converted) =>
        /\ \A f \in DOMAIN h_outBefore :
              f \in DOMAIN outtree /\ outtree[f] = h_outBefore[f]
        /\ \A t \in DOMAIN h_tempBefore :
              t \in DOMAIN tempdir /\ tempdir[t] = h_tempBefore[t]

C12_Witness ==
    /\ TaskEnded
    /\ h_outcome[h_cur] = "error"
    /\ h_log # <<>>
    /\ DOMAIN h_outBefore # {}
    /\ DOMAIN h_tempBefore # {}

\* C13: at most one ffmpeg child is alive: no child is being waited for while
\* a child of an earlier invocation still runs.
C13_OneProcessAtATime == ~(terminated /\ p # None)

CountStatus(S) == Cardinality({ i \in DOMAIN h_outcome : h_outcome[i] \in S })

Reported == {"encoded", "remuxed-audio-converted", "exists-skip", "error", "exception"}

C15_AtomicCommit ==
    \A f \in DOMAIN outtree : outtree[f].q = "complete"

OutPathOf(i) == make_output_path(tasks[i], tasks[i].root, OUT_ROOT)

\* C20: in the first run no file is reported exists-skip because another
\* source file of the batch was converted to the same destination.
C20_NoCollisionSkip ==
    ~ /\ ~second
      /\ h_cur # 0
      /\ h_outcome[h_cur] = "exists-skip"
      /\ \E j \in 1..(h_cur - 1) :
            /\ tasks[j] # tasks[h_cur]
            /\ h_outcome[j] \in Converted
            /\ OutPathOf(j) = OutPathOf(h_cur)

(* ------------------------------------------------------------------ *)
(* The classifier on its own                                           *)
(* ------------------------------------------------------------------ *)
STR_HEVC == <<"h", "e", "v", "c">>

STR_LIBOPENH264 == <<"l", "i", "b", "o", "p", "e", "n", "h", "2", "6", "4">>

STR_YUV444P == <<"y", "u", "v", "4", "4", "4", "p">>

STR_YUV420P10LE == <<"y", "u", "v", "4", "2", "0", "p", "1", "0", "l", "e">>

\* a dict with the key, or without it
Opt(key, present, v) == IF present THEN (key :> v) ELSE EmptyInfo

\* stream entries ffprobe can print: each field present or not
ClassifierInputs ==
    { Opt("width", a, w) @@ Opt("height", b, h) @@ Opt("pix_fmt", c, x)
          @@ Opt("codec_name", d, n) :
        a \in BOOLEAN, w \in {640, 854, 855, 1280},
        b \in BOOLEAN, h \in {360, 480, 481, 720},
        c \in BOOLEAN, x \in {STR_YUV420P, STR_YUVJ420P, STR_YUV444P, STR_YUV420P10LE},
        d \in BOOLEAN, n \in {STR_H264, STR_HEVC, STR_LIBOPENH264} }

\* a fixed program state for the checks of single functions
FnInit ==
    /\ ProgInit
    /\ HWACCEL = None
    /\ tasks = <<AllFiles[1]>>
    /\ fn_done = FALSE

InitClassifier ==
    /\ FnInit
    /\ fn_arg \in ClassifierInputs
    /\ fn_res = FALSE

Classify ==
    /\ ~fn_done
    /\ fn_res' = already_satisfies_480p(fn_arg)
    /\ fn_done' = TRUE
    /\ UNCHANGED << progvars, fn_arg >>

NextClassifier == Classify

SpecClassifier == InitClassifier /\ [][NextClassifier]_vars

\* what the claims call a compliant profile
Compliant(prof) ==
    /\ {"width", "height", "pix_fmt", "codec_name"} \subseteq DOMAIN prof
    /\ prof["width"] <= 854
    /\ prof["height"] <= 480
    /\ Contains(prof["codec_name"], STR_H264)
    /\ prof["pix_fmt"] \in {STR_YUV420P, STR_YUVJ420P}

\* C16: the classifier returns true exactly for the profiles that have all
\* four fields, width <= 854, height <= 480, a codec name containing h264 and a
\* pixel format yuv420p or yuvj420p.
C16_ClassifierIff == fn_done => (fn_res <=> Compliant(fn_arg))

C16_Witness ==
    /\ fn_done
    /\ fn_res
    /\ fn_arg["width"] = 854
    /\ fn_arg["height"] = 480
    /\ fn_arg["pix_fmt"] = STR_YUVJ420P
    /\ fn_arg["codec_name"] = STR_LIBOPENH264

\* C19: when the probe returned a profile that is not compliant (empty,
\* partial or out of profile), the task makes no remux attempt, its first
\* invocation re-encodes the video, and it is not reported remuxed.
C19_RemuxOnlyIfCompliant ==
    (h_probed /\ ~Compliant(info)) =>
        /\ kind # "remux"
        /\ AttemptsOf({"remux"}) = {}
        /\ h_log # <<>> => h_log[1].vcodec = "libx264"
        /\ h_outcome[h_cur] # "remuxed-audio-converted"

C19_Witness ==
    /\ TaskEnded
    /\ h_probed
    /\ DOMAIN info # {}
    /\ "pix_fmt" \notin DOMAIN info
    /\ h_log # <<>>
    /\ h_outcome[h_cur] = "encoded"

(* ------------------------------------------------------------------ *)
(* The scale filter on its own                                         *)
(* ------------------------------------------------------------------ *)
Widths == (1..MaxSmallDim) \cup {320, 640, 853, 854, 855, 1280, 1920}

Heights == (1..MaxSmallDim) \cup {240, 360, 479, 480, 481, 720, 1080}

InitScale ==
    /\ FnInit
    /\ fn_arg \in [iw : Widths, ih : Heights]
    /\ fn_res = [w |-> 0, h |-> 0]

ApplyScale ==
    /\ ~fn_done
    /\ fn_res' \in ScaleOutputs(fn_arg.iw, fn_arg.ih)
    /\ fn_done' = TRUE
    /\ UNCHANGED << progvars, fn_arg >>

NextScale == ApplyScale

SpecScale == InitScale /\ [][NextScale]_vars

\* C17: the scaled width and height are even and fit 854 x 480.
C17_ScaledEvenAndFits ==
    fn_done =>
        /\ fn_res.w % 2 = 0
        /\ fn_res.h % 2 = 0
        /\ fn_res.w <= 854
        /\ fn_res.h <= 480

C17_Witness ==
    /\ fn_done
    /\ fn_arg = [iw |-> 1920, ih |-> 1080]
    /\ fn_res = [w |-> 852, h |-> 480]

\* C18: the scaled size is never larger than the source.
C18_NeverUpscales ==
    fn_done => (fn_res.w <= fn_arg.iw /\ fn_res.h <= fn_arg.ih)

====
